---- MODULE Spec2Model ----
(***************************************************************************)
(* Verdant AI service: the route handlers of services/api/python/routes    *)
(* over the row store of tests/test_ads.py (FakeSupabase / FakeTable).     *)
(*                                                                         *)
(* A handler is one action: it reads rows, renders a prompt, invokes a     *)
(* text-generation backend, parses the reply, writes rows and responds.    *)
(* The backends' replies and the datastore write that raises are inputs    *)
(* of the action.  Every datastore call and every backend call a handler   *)
(* issues is appended, in program order, to the request's event log.       *)
(* Deliver hands the response to the caller and the worker is idle again.  *)
(***************************************************************************)
EXTENDS Integers, Sequences, FiniteSets, TLC

VARIABLES
    storage,    \* FakeSupabase.storage: table name -> sequence of rows
    nextId,     \* source of fresh identifiers (uuid4 in _ensure_id)
    left,       \* requests the behaviour still handles
    req,        \* the last request
    resp,       \* the response to the last request: status and body
    log,        \* datastore and backend calls issued by the last request
    before,     \* storage as it was when the last request arrived
    worker,     \* the event loop: its tasks and the task its thread runs
    asked,      \* the creative ids the caller has asked to publish
    procs       \* plan requests running on worker processes of their own

vars ==
    <<storage, nextId, left, req, resp, log, before, worker, asked, procs>>

(***************************************************************************)
(* Bounds of the model.                                                    *)
(***************************************************************************)
\* requests per behaviour of Spec, the specification with every router
MaxRequests == 1
\* requests per behaviour of the specifications of one or two handlers
MaxRepeats == 2
\* longest lead_ids / neighborhood_ids list of a request
MaxItems == 2
\* a request's datastore writes 1..MaxWriteFail are the ones that may raise
MaxWriteFail == 2
\* requests in flight on one event loop
MaxTasks == 2
\* worker processes that share the datastore
MaxProcs == 2

(***************************************************************************)
(* Python values.                                                          *)
(***************************************************************************)
\* None, and every falsy identifier
NULL == 0

Tables ==
    {"ad_campaigns", "neighborhoods", "ad_creatives", "ad_placements",
     "ad_performance", "leads",
     "customers",
     "customer_embeddings", "properties", "prospects", "garden_plans",
     "ai_generated_content", "watering_schedules", "weather_data",
     "lawn_maintenance_schedules", "jobs", "invoices"}

\* dict.get(key): None when the key is absent
Get(r, f) == IF f \in DOMAIN r THEN r[f] ELSE NULL

\* dict.get(key, default)
GetD(r, f, d) == IF f \in DOMAIN r THEN r[f] ELSE d

\* replacing a outright by b
Replace(a, b) == b

\* dict.update / {**a, **b}: b's keys override a's, a's other keys stay
Merge(a, b) ==
    [f \in DOMAIN a \cup DOMAIN b |-> IF f \in DOMAIN b THEN b[f] ELSE a[f]]

(***************************************************************************)
(* The row store.                                                          *)
(***************************************************************************)
\* FakeSupabase._ensure_id: a record without a truthy id gets a fresh one
ensure_id(record, fresh) ==
    IF Get(record, "id") = NULL THEN Merge(record, [id |-> fresh]) ELSE record

\* FakeTable.execute, the "eq" filter
FilterEq(rows, f, v) == SelectSeq(rows, LAMBDA r : Get(r, f) = v)

\* FakeTable.execute with single(): the first record or None, here a
\* sequence of at most one row
Single(rows) == IF Len(rows) = 0 THEN <<>> ELSE <<rows[1]>>

\* an insert that returns the record and stores nothing
InsertRowsLost(rows, payload, fresh) == rows

\* FakeSupabase._handle_insert, the stored table after it
InsertRows(rows, payload, fresh) == Append(rows, ensure_id(payload, fresh))

\* on_conflict.split(",") then strip() of each part: a part is a field
\* name with or without blanks around it
OnConflictFields(on_conflict) ==
    IF on_conflict = <<>> THEN <<>>
    ELSE [i \in 1..Len(on_conflict) |-> on_conflict[i].name]

\* FakeSupabase._handle_upsert, line 139: stored matches record on every key
Matches(stored, record, key_fields) ==
    /\ Len(key_fields) > 0
    /\ \A i \in 1..Len(key_fields) :
          Get(stored, key_fields[i]) = Get(record, key_fields[i])

\* index of the first stored row the record conflicts with, 0 if none
ExistingIndex(rows, record, key_fields) ==
    IF \E i \in 1..Len(rows) : Matches(rows[i], record, key_fields)
    THEN CHOOSE i \in 1..Len(rows) :
            /\ Matches(rows[i], record, key_fields)
            /\ \A j \in 1..(i - 1) : ~Matches(rows[j], record, key_fields)
    ELSE 0

\* FakeSupabase._handle_upsert, the stored table after it
UpsertRows(rows, payload, on_conflict, fresh) ==
    LET key_fields == OnConflictFields(on_conflict)
        i == ExistingIndex(rows, payload, key_fields)
    IN  IF i > 0
        THEN [rows EXCEPT ![i] = Merge(rows[i], payload)]
        ELSE Append(rows, ensure_id(payload, fresh))

\* an update without its .eq filter: every row takes the fields
UpdateEveryRow(rows, fields, key, v) ==
    [i \in 1..Len(rows) |-> Merge(rows[i], fields)]

\* table.update(fields).eq(key, v): every matching row takes the fields
UpdateRows(rows, fields, key, v) ==
    [i \in 1..Len(rows) |->
        IF Get(rows[i], key) = v THEN Merge(rows[i], fields) ELSE rows[i]]

(***************************************************************************)
(* The running request: st = [storage, nextId, log, exc, ret, env].        *)
(* exc is "none" while the handler runs, "http404" after                   *)
(* raise HTTPException(status_code=404) and "error" after any other        *)
(* exception.  A step of a handler whose exc is not "none" does nothing.   *)
(* env = [replies, wfail]: the k-th backend call of the request gets       *)
(* replies[k], and the wfail-th datastore write raises (0: none does).     *)
(* Reads are those of FakeTable.execute, which never raises.               *)
(***************************************************************************)
NumWrites(lg) == Len(SelectSeq(lg, LAMBDA e : e.ev = "db" /\ e.op # "select"))
NumCalls(lg) == Len(SelectSeq(lg, LAMBDA e : e.ev = "call"))

Start(env) ==
    [storage |-> storage, nextId |-> nextId, log |-> <<>>, exc |-> "none",
     ret |-> <<>>, env |-> env]

Raise(st, what) == IF st.exc = "none" THEN [st EXCEPT !.exc = what] ELSE st

\* one datastore read: logged; ret is what execute() returns
DbRead(st, tbl, item, ret) ==
    IF st.exc # "none" THEN st
    ELSE [st EXCEPT
            !.log = Append(@, [ev |-> "db", op |-> "select", tbl |-> tbl,
                               item |-> item, ok |-> TRUE]),
            !.ret = ret]

\* one datastore write: logged, and it raises when it is the failing write
DbWrite(st, op, tbl, item, newRows, ret, ids) ==
    IF st.exc # "none" THEN st
    ELSE LET ok == st.env.wfail # NumWrites(st.log) + 1
             ev == [ev |-> "db", op |-> op, tbl |-> tbl, item |-> item, ok |-> ok]
         IN  IF ok
             THEN [st EXCEPT !.log = Append(@, ev),
                             !.storage = [@ EXCEPT ![tbl] = newRows],
                             !.nextId = @ + ids,
                             !.ret = ret]
             ELSE [st EXCEPT !.log = Append(@, ev), !.exc = "error", !.ret = <<>>]

\* supabase.table(t).select(..).eq(f, v).execute()
Select(st, tbl, item, f, v) ==
    DbRead(st, tbl, item, FilterEq(st.storage[tbl], f, v))

\* supabase.table(t).select(..).eq(f, v).single().execute()
SelectSingle(st, tbl, item, f, v) ==
    DbRead(st, tbl, item, Single(FilterEq(st.storage[tbl], f, v)))

\* supabase.table(t).insert(payload)[.select().single()].execute()
Insert(st, tbl, item, payload) ==
    DbWrite(st, "insert", tbl, item,
            InsertRows(st.storage[tbl], payload, st.nextId),
            <<ensure_id(payload, st.nextId)>>,
            IF Get(payload, "id") = NULL THEN 1 ELSE 0)

\* supabase.table(t).upsert(payload, on_conflict).execute()
Upsert(st, tbl, item, payload, on_conflict) ==
    LET rows == st.storage[tbl]
        i == ExistingIndex(rows, payload, OnConflictFields(on_conflict))
        after == UpsertRows(rows, payload, on_conflict, st.nextId)
    IN  DbWrite(st, "upsert", tbl, item, after,
                <<IF i > 0 THEN after[i] ELSE after[Len(after)]>>,
                IF i = 0 /\ Get(payload, "id") = NULL THEN 1 ELSE 0)

\* supabase.table(t).update(fields).eq(key, v).execute()
Update(st, tbl, item, fields, key, v) ==
    DbWrite(st, "update", tbl, item,
            UpdateRows(st.storage[tbl], fields, key, v), <<>>, 0)

(***************************************************************************)
(* The backends.  A reply is [kind, doc]: kind "raise" (the call raises),  *)
(* "text" (text that is no JSON), "wrapped" (a JSON object inside          *)
(* conversational text) or "json" (a bare JSON object, doc its content).   *)
(***************************************************************************)
\* the reply the request's next backend call gets; a request that issues
\* more calls than it has replies is no behaviour (see Consumed)
NextReply(st) ==
    IF NumCalls(st.log) < Len(st.env.replies)
    THEN st.env.replies[NumCalls(st.log) + 1]
    ELSE [kind |-> "raise", doc |-> <<>>]

\* a client that calls again after a call that raised
InvokeModelRetrying(st, backend, item) ==
    IF st.exc # "none" THEN st
    ELSE LET reply == NextReply(st)
             ev == [ev |-> "call", op |-> backend, tbl |-> "", item |-> item,
                    ok |-> reply.kind # "raise"]
             again == IF NumCalls(st.log) + 1 < Len(st.env.replies)
                      THEN st.env.replies[NumCalls(st.log) + 2]
                      ELSE [kind |-> "raise", doc |-> <<>>]
         IN  IF reply.kind # "raise"
             THEN [st EXCEPT !.log = Append(@, ev), !.ret = <<reply>>]
             ELSE [st EXCEPT
                     !.log = @ \o <<ev, [ev EXCEPT !.ok = again.kind # "raise"]>>,
                     !.exc = IF again.kind # "raise" THEN "none" ELSE "error",
                     !.ret = <<again>>]

\* client.chat.completions.create / client.messages.create /
\* client.embeddings.create: one upstream call, logged; ret is the reply
InvokeModel(st, backend, item) ==
    IF st.exc # "none" THEN st
    ELSE LET reply == NextReply(st)
             ok == reply.kind # "raise"
             ev == [ev |-> "call", op |-> backend, tbl |-> "", item |-> item, ok |-> ok]
         IN  [st EXCEPT !.log = Append(@, ev),
                        !.exc = IF ok THEN "none" ELSE "error",
                        !.ret = <<reply>>]

\* a parser that takes whatever object it finds in the text, none included
JsonLoadsLenient(st) ==
    IF st.exc # "none" THEN st ELSE [st EXCEPT !.ret = <<st.ret[1].doc>>]

\* json.loads(content): only a bare JSON value parses; ret is the object
JsonLoads(st) ==
    IF st.exc # "none" THEN st
    ELSE IF st.ret[1].kind = "json"
         THEN [st EXCEPT !.ret = <<st.ret[1].doc>>]
         ELSE Raise(st, "error")

\* the inputs of the request are the ones it consumed: a reply for every
\* backend call it issued, and a failing write only if a write failed
Consumed(st) ==
    /\ NumCalls(st.log) = Len(st.env.replies)
    /\ st.env.wfail = 0 \/ \E k \in 1..Len(st.log) : ~st.log[k].ok /\ st.log[k].ev = "db"

(***************************************************************************)
(* Exception translation of the handlers.                                  *)
(***************************************************************************)
\* the handlers with "except HTTPException: raise" before "except Exception"
ReraisesHTTP == {"score_lead", "generate_customer_embedding"}

\* a handler with the blanket "except Exception" only
StatusOfBlanket(op, exc) ==
    IF exc = "none" THEN 200 ELSE IF exc = "http422" THEN 422 ELSE 500

\* the status a handler's except clauses give the caller
StatusOf(op, exc) ==
    IF exc = "none" THEN 200
    \* raised by request validation, before the handler's try block
    ELSE IF exc = "http422" THEN 422
    \* no route matches the path: the router answers, no handler runs
    ELSE IF exc = "nomatch" THEN 404
    ELSE IF exc = "http404" /\ op \in ReraisesHTTP THEN 404
    ELSE 500

\* a request model that lets a body without a required field through
ValidateNothing(st, body, required) == st

\* pydantic's validation of the request body against the BaseModel the
\* handler declares: a required field that is absent ends the request with
\* 422 before the handler runs
Validate(st, body, required) ==
    IF required \subseteq DOMAIN body THEN st ELSE Raise(st, "http422")

\* a worker process that runs no plan request yet
NoProc == [at |-> "idle", address |-> <<>>, prospect |-> NULL]

\* the worker is free and a request is still to come
Idle == req.op = "none" /\ left > 0

\* the handler returns or raises: the request's effects become the state
\* what the caller remembers of a request: the creative a publish names
Asks(op, args) == IF op = "publish_ads" THEN {args.creative_id} ELSE {}

Respond(op, args, st, body) ==
    /\ Consumed(st)
    /\ storage' = st.storage
    /\ nextId' = st.nextId
    /\ log' = st.log
    /\ before' = storage
    /\ req' = [op |-> op, args |-> args, env |-> st.env]
    /\ resp' = [status |-> StatusOf(op, st.exc),
                body |-> IF st.exc = "none" THEN body ELSE <<>>]
    /\ left' = left - 1
    /\ asked' = asked \cup Asks(op, args)
    /\ UNCHANGED <<worker, procs>>

NoRequest == [op |-> "none", args |-> <<>>, env |-> <<>>]
NoResponse == [status |-> 0, body |-> <<>>]

\* the response reaches the caller; the worker waits for the next request
Deliver ==
    /\ req.op # "none"
    /\ req' = NoRequest
    /\ resp' = NoResponse
    /\ log' = <<>>
    /\ before' = storage
    /\ UNCHANGED <<storage, nextId, left, worker, asked, procs>>

\* the inputs a request may get: replies for up to n backend calls, where
\* every reply before the last is in Goes, the replies after which the
\* handler can still issue a call (after the others it has raised)
Envs(Replies, Goes, n) ==
    {[replies |-> r, wfail |-> w] :
        r \in UNION {{q \in [1..k -> Replies] :
                         \A i \in 1..(k - 1) : q[i] \in Goes} : k \in 0..n},
        w \in 0..MaxWriteFail}

(***************************************************************************)
(* routes/leads.py                                                         *)
(***************************************************************************)
LeadIds == {1, 2, 3}

\* replies of the scoring model: it raises, answers text that is no JSON,
\* the promised object, or an object without the promised keys
ScoreReplies ==
    {[kind |-> "raise", doc |-> <<>>],
     [kind |-> "text", doc |-> <<>>],
     [kind |-> "json",
      doc |-> [score |-> 80, estimated_monthly_value |-> 120, factors |-> 7,
               explanation |-> 1]],
     [kind |-> "json", doc |-> [explanation |-> 1]]}

\* the f-string of score_lead: ', '.join(lead.get('services_interested', []))
\* raises TypeError when the key is present with a null value
RenderScorePrompt(st, lead) ==
    IF st.exc # "none" THEN st
    ELSE IF "services_interested" \in DOMAIN lead[1]
            /\ lead[1]["services_interested"] = NULL
         THEN Raise(st, "error")
         ELSE st

\* score_lead, lines 36-93: the body of its try block
ScoreLeadBody(st, lead_id, item) ==
    LET s1 == SelectSingle(st, "leads", item, "id", lead_id)
        lead == s1.ret
        s2 == IF s1.exc = "none" /\ Len(lead) = 0 THEN Raise(s1, "http404") ELSE s1
        s3 == RenderScorePrompt(s2, lead)
        s4 == InvokeModel(s3, "openai", item)
        s5 == JsonLoads(s4)
        result == s5.ret[1]
    IN  IF s5.exc # "none" THEN s5
        ELSE [s5 EXCEPT !.ret =
                <<[lead_id |-> lead_id,
                   score |-> GetD(result, "score", 50),
                   estimated_monthly_value |->
                       GetD(result, "estimated_monthly_value", 0),
                   factors |-> GetD(result, "factors", NULL)]>>]

\* LeadScoreRequest, lines 17-18: the fields without a default
LeadRequired == {"lead_id"}

\* the request bodies: with a lead_id, and the empty JSON object
LeadRequests == {[lead_id |-> l] : l \in LeadIds} \cup {<<>>}

\* POST /api/leads/score; request.lead_id of a body without the field
\* raises AttributeError inside the try block
score_lead ==
    /\ Idle
    /\ \E args \in LeadRequests, env \in Envs(ScoreReplies, {}, 1) :
           LET s0 == Validate(Start(env), args, LeadRequired)
               st == IF s0.exc # "none" THEN s0
                     ELSE IF ~(LeadRequired \subseteq DOMAIN args)
                     THEN Raise(s0, "error")
                     ELSE ScoreLeadBody(s0, args.lead_id, 1)
           IN  Respond("score_lead", args, st,
                       IF st.exc = "none" THEN st.ret[1] ELSE <<>>)

\* lists without repetition of at most MaxItems elements of S
ListsOf(S) ==
    {l \in UNION {[1..n -> S] : n \in 0..MaxItems} :
        \A i, j \in 1..Len(l) : l[i] = l[j] => i = j}

\* .in_('id', lead_ids): the stored rows whose id is in the list
FilterIn(rows, f, vs) ==
    SelectSeq(rows, LAMBDA r : \E k \in 1..Len(vs) : Get(r, f) = vs[k])

\* a per-lead handler that lets the exception end the request
Reraise(acc, st) == [acc EXCEPT !.st = st]

\* batch_score_leads, lines 134-136: except Exception: print, continue
\* an iteration that counts the lead before it knows the outcome
ContinueCounted(acc, st) ==
    [acc EXCEPT !.st = [st EXCEPT !.exc = "none"], !.scored_count = @ + 1]

Continue(acc, st) == [acc EXCEPT !.st = [st EXCEPT !.exc = "none"]]

\* batch_score_leads, lines 118-136: the loop over the fetched leads from
\* the i-th on; acc = [st, scored_count, results]
RECURSIVE BatchLoop(_, _, _)
BatchLoop(acc, leads, i) ==
    IF i > Len(leads) THEN acc
    ELSE LET id == leads[i]["id"]
             s1 == ScoreLeadBody(acc.st, id, i)
             score_result == s1.ret[1]
             s2 == IF s1.exc # "none" THEN s1
                   ELSE Update(s1, "leads", i,
                               [score |-> score_result.score,
                                score_factors |-> score_result.factors,
                                estimated_monthly_value |->
                                    score_result.estimated_monthly_value],
                               "id", id)
         IN  IF s2.exc = "none"
             THEN BatchLoop([st |-> s2,
                             scored_count |-> acc.scored_count + 1,
                             results |-> Append(acc.results, score_result)],
                            leads, i + 1)
             ELSE BatchLoop(Continue(acc, s2), leads, i + 1)

\* a batch that scores every lead first and writes the scores afterwards,
\* as gathered tasks would: acc = [st, scored_count, results, ats]
RECURSIVE ScoreAll(_, _, _)
ScoreAll(acc, leads, i) ==
    IF i > Len(leads) THEN acc
    ELSE LET s1 == ScoreLeadBody(acc.st, leads[i]["id"], i)
         IN  IF s1.exc = "none"
             THEN ScoreAll([acc EXCEPT !.st = s1,
                                       !.results = Append(@, s1.ret[1]),
                                       !.ats = Append(@, i)],
                           leads, i + 1)
             ELSE ScoreAll(Continue(acc, s1), leads, i + 1)

RECURSIVE UpdateAll(_, _)
UpdateAll(acc, k) ==
    IF k > Len(acc.results) THEN acc
    ELSE LET r == acc.results[k]
             s1 == Update(acc.st, "leads", acc.ats[k],
                          [score |-> r.score, score_factors |-> r.factors,
                           estimated_monthly_value |-> r.estimated_monthly_value],
                          "id", r.lead_id)
         IN  IF s1.exc = "none"
             THEN UpdateAll([acc EXCEPT !.st = s1, !.scored_count = @ + 1], k + 1)
             ELSE UpdateAll(Continue(acc, s1), k + 1)

BatchScoreGathered(st, lead_ids) ==
    LET s1 == DbRead(st, "leads", 0,
                     FilterIn(st.storage["leads"], "id", lead_ids))
    IN  UpdateAll(ScoreAll([st |-> s1, scored_count |-> 0, results |-> <<>>,
                            ats |-> <<>>], s1.ret, 1), 1)

\* batch_score_leads, lines 109-142: the body of its try block
BatchScoreBody(st, lead_ids) ==
    LET s1 == DbRead(st, "leads", 0,
                     FilterIn(st.storage["leads"], "id", lead_ids))
    IN  BatchLoop([st |-> s1, scored_count |-> 0, results |-> <<>>],
                  s1.ret, 1)

\* POST /api/leads/batch-score
batch_score_leads ==
    /\ Idle
    /\ \E lead_ids \in ListsOf(LeadIds) :
         \E env \in Envs(ScoreReplies, ScoreReplies,
                         Len(FilterIn(storage["leads"], "id", lead_ids))) :
           LET out == BatchScoreBody(Start(env), lead_ids)
           IN  Respond("batch_score_leads", [lead_ids |-> lead_ids], out.st,
                       [scored_count |-> out.scored_count,
                        results |-> out.results])

(***************************************************************************)
(* routes/ads.py                                                           *)
(***************************************************************************)
CampaignIds == {1, 2}
NeighborhoodIds == {1, 2, 3}

\* AdGenerationRequest, lines 18 and 22: the values the comments document
AdTypes == {"image", "video", "carousel", "story"}
UseModels == {"gpt-4", "claude"}

\* the (ad_type, use_model) of a request: each documented model, a model
\* and an ad_type outside the documented sets
AdOptions ==
    {[ad_type |-> "image", use_model |-> "gpt-4"],
     [ad_type |-> "image", use_model |-> "claude"],
     [ad_type |-> "image", use_model |-> "llama"],
     [ad_type |-> "banner", use_model |-> "gpt-4"]}

\* AdGenerationRequest: the fields without a default
AdRequired == {"campaign_id", "neighborhood_ids", "ad_type", "platforms"}

\* the request bodies: with neighborhood_ids, and the body of
\* test_generate_ads_returns_creatives, which has zip_code and
\* max_neighborhoods and no neighborhood_ids (use_model takes its default)
AdRequests ==
    {[campaign_id |-> c, neighborhood_ids |-> n, ad_type |-> o.ad_type,
      platforms |-> <<"facebook">>, use_model |-> o.use_model] :
        c \in CampaignIds, n \in ListsOf(NeighborhoodIds), o \in AdOptions}
    \cup {[campaign_id |-> c, ad_type |-> "image",
           platforms |-> <<"facebook">>, use_model |-> "gpt-4",
           zip_code |-> 1, max_neighborhoods |-> 1] : c \in CampaignIds}

\* a variant with every key the prompt promises, and one without 'headline'
GoodVariant(h) ==
    [platform |-> "facebook", headline |-> h, body |-> "body", cta |-> "cta"]
HeadlessVariant == [platform |-> "facebook", body |-> "body", cta |-> "cta"]

\* replies of the copywriting model
AdReplies ==
    {[kind |-> "raise", doc |-> <<>>],
     [kind |-> "wrapped", doc |-> [variants |-> <<GoodVariant("h1")>>]],
     [kind |-> "json", doc |-> [variants |-> <<GoodVariant("h1")>>]],
     [kind |-> "json",
      doc |-> [variants |-> <<GoodVariant("h1"), GoodVariant("h2")>>]],
     [kind |-> "json",
      doc |-> [variants |-> <<GoodVariant("h1"), HeadlessVariant>>]],
     [kind |-> "json", doc |-> [note |-> 1]]}

\* the replies after which the loop goes on to the next neighborhood: the
\* ones that parse and whose variants all have the keys lines 150-163 read
WellFormedAdReplies ==
    {r \in AdReplies :
        /\ r.kind = "json"
        /\ \A k \in 1..Len(GetD(r.doc, "variants", <<>>)) :
              {"platform", "headline", "body", "cta"}
                  \subseteq DOMAIN r.doc["variants"][k]}

\* the f-string of generate_neighborhood_ads, lines 63-118:
\* ', '.join(neighborhood.get('common_grass_types', [])) raises TypeError
\* when the key is present with a null value
RenderAdPrompt(st, neighborhood) ==
    IF st.exc # "none" THEN st
    ELSE IF "common_grass_types" \in DOMAIN neighborhood
            /\ neighborhood["common_grass_types"] = NULL
         THEN Raise(st, "error")
         ELSE st

\* lines 121-143: the backend the request selects
AdBackend(use_model) == IF use_model = "claude" THEN "anthropic" ELSE "openai"

\* creative_data that tags the row with the default model and no neighborhood
CreativeDataUntagged(args, neighborhood_id, variant) ==
    [campaign_id |-> args.campaign_id,
     name |-> <<variant["platform"]>>,
     ad_type |-> args.ad_type,
     headline |-> variant["headline"],
     body_text |-> variant["body"],
     call_to_action |-> variant["cta"],
     neighborhood_id |-> NULL,
     ai_model |-> "gpt-4",
     status |-> "draft"]

\* lines 150-163: creative_data; variant['headline'] and the like raise
\* KeyError when the variant lacks the key
CreativeData(args, neighborhood_id, variant) ==
    [campaign_id |-> args.campaign_id,
     \* the neighborhood's name and the platform; a name is its parts
     name |-> <<variant["platform"]>>,
     ad_type |-> args.ad_type,
     headline |-> variant["headline"],
     body_text |-> variant["body"],
     call_to_action |-> variant["cta"],
     neighborhood_id |-> neighborhood_id,
     ai_model |-> args.use_model,
     status |-> "draft"]

\* lines 149-166: the loop over the variants from the j-th on;
\* acc = [st, generated_ads]
RECURSIVE VariantLoop(_, _, _, _, _, _)
VariantLoop(acc, args, neighborhood_id, item, variants, j) ==
    IF j > Len(variants) \/ acc.st.exc # "none" THEN acc
    ELSE IF ~({"platform", "headline", "body", "cta"} \subseteq DOMAIN variants[j])
         THEN [acc EXCEPT !.st = Raise(acc.st, "error")]
         ELSE LET s1 == Insert(acc.st, "ad_creatives", item,
                               CreativeData(args, neighborhood_id, variants[j]))
              IN  IF s1.exc # "none" THEN [acc EXCEPT !.st = s1]
                  ELSE VariantLoop([st |-> s1,
                                    generated_ads |->
                                        Append(acc.generated_ads, s1.ret[1])],
                                   args, neighborhood_id, item, variants, j + 1)

\* a lookup that treats the unknown neighborhood as the unknown campaign
RejectNeighborhood(acc, st) == [acc EXCEPT !.st = Raise(st, "http404")]

\* lines 59-60, "if not neighborhood: continue": the request goes on from
\* the state after the read
SkipNeighborhood(acc, st) == [acc EXCEPT !.st = st]

\* lines 54-166: the loop over neighborhood_ids from the i-th on
RECURSIVE NeighborhoodLoop(_, _, _)
NeighborhoodLoop(acc, args, i) ==
    IF i > Len(args.neighborhood_ids) \/ acc.st.exc # "none" THEN acc
    ELSE LET neighborhood_id == args.neighborhood_ids[i]
             s1 == SelectSingle(acc.st, "neighborhoods", i, "id", neighborhood_id)
         IN  IF Len(s1.ret) = 0
             \* if not neighborhood: continue
             THEN NeighborhoodLoop(SkipNeighborhood(acc, s1), args, i + 1)
             ELSE LET s2 == RenderAdPrompt(s1, s1.ret[1])
                      s3 == InvokeModel(s2, AdBackend(args.use_model), i)
                      s4 == JsonLoads(s3)
                  IN  IF s4.exc # "none" THEN [acc EXCEPT !.st = s4]
                      ELSE NeighborhoodLoop(
                               VariantLoop([acc EXCEPT !.st = s4], args,
                                           neighborhood_id, i,
                                           GetD(s4.ret[1], "variants", <<>>), 1),
                               args, i + 1)

\* generate_neighborhood_ads, lines 43-172: the body of its try block
GenerateAdsBody(st, args) ==
    LET s1 == SelectSingle(st, "ad_campaigns", 0, "id", args.campaign_id)
    IN  IF Len(s1.ret) = 0
        THEN [st |-> Raise(s1, "http404"), generated_ads |-> <<>>]
        ELSE NeighborhoodLoop([st |-> s1, generated_ads |-> <<>>], args, 1)

\* the backend calls a request can issue: one per stored neighborhood of
\* its list, none without a stored campaign or a valid body
AdCalls(args) ==
    IF ~(AdRequired \subseteq DOMAIN args)
          \/ Len(FilterEq(storage["ad_campaigns"], "id", args.campaign_id)) = 0
    THEN 0
    ELSE Len(FilterIn(storage["neighborhoods"], "id", args.neighborhood_ids))

\* POST /api/ads/generate
generate_neighborhood_ads ==
    /\ Idle
    /\ \E args \in AdRequests :
         \E env \in Envs(AdReplies, WellFormedAdReplies, AdCalls(args)) :
           LET s0 == Validate(Start(env), args, AdRequired)
               out == IF s0.exc # "none"
                      THEN [st |-> s0, generated_ads |-> <<>>]
                      \* request.neighborhood_ids of a body without the
                      \* field raises AttributeError inside the try block
                      ELSE IF ~(AdRequired \subseteq DOMAIN args)
                      THEN [st |-> Raise(s0, "error"), generated_ads |-> <<>>]
                      ELSE GenerateAdsBody(s0, args)
           IN  Respond("generate_neighborhood_ads", args, out.st,
                       [ads |-> out.generated_ads,
                        model_used |-> args.use_model])

\* AdVariantRequest, lines 25-28: the fields without a default
VariantRequired == {"creative_id", "test_variables"}

\* the request bodies: for a stored creative or an unknown one (NULL), and
\* a body without test_variables
VariantRequests ==
    LET ids == {storage["ad_creatives"][k]["id"] :
                   k \in 1..Len(storage["ad_creatives"])} \cup {NULL}
    IN  {[creative_id |-> c, test_variables |-> <<"headline">>] : c \in ids}
        \cup {[creative_id |-> c] : c \in ids}

\* a variant with every key the prompt of lines 212-222 promises, and one
\* without 'changes_made'
ABVariant(n) ==
    [variant_name |-> n, headline |-> "h3", body |-> "body3", cta |-> "cta3",
     changes_made |-> 1]
UnexplainedVariant ==
    [variant_name |-> "B", headline |-> "h3", body |-> "body3", cta |-> "cta3"]

\* replies of the model asked for A/B variants
ABReplies ==
    {[kind |-> "raise", doc |-> <<>>],
     [kind |-> "text", doc |-> <<>>],
     [kind |-> "json", doc |-> [note |-> 1]],
     [kind |-> "json", doc |-> [variants |-> <<ABVariant("A")>>]],
     [kind |-> "json", doc |-> [variants |-> <<ABVariant("A"), ABVariant("B")>>]],
     [kind |-> "json",
      doc |-> [variants |-> <<ABVariant("A"), UnexplainedVariant>>]]}

\* a variant row that keeps the identifier of the row it copies
VariantCreativeSameId(original, variant) ==
    Merge(original,
          [name |-> Append(original["name"], variant["variant_name"]),
           headline |-> variant["headline"],
           body_text |-> variant["body"],
           call_to_action |-> variant["cta"],
           variant_name |-> variant["variant_name"],
           is_control |-> FALSE])

\* lines 241-250: variant_creative, the original's fields under the new ones
VariantCreative(original, variant) ==
    Merge(original,
          [id |-> NULL,
           name |-> Append(original["name"], variant["variant_name"]),
           headline |-> variant["headline"],
           body_text |-> variant["body"],
           call_to_action |-> variant["cta"],
           variant_name |-> variant["variant_name"],
           is_control |-> FALSE])

\* lines 240-257: the loop over the variants from the j-th on;
\* acc = [st, created_variants]
RECURSIVE ABVariantLoop(_, _, _, _)
ABVariantLoop(acc, original, variants, j) ==
    IF j > Len(variants) \/ acc.st.exc # "none" THEN acc
    \* original['name'], variant['variant_name'] and the like raise KeyError
    ELSE IF ~("name" \in DOMAIN original
                /\ {"variant_name", "headline", "body", "cta"}
                       \subseteq DOMAIN variants[j])
         THEN [acc EXCEPT !.st = Raise(acc.st, "error")]
         ELSE LET s1 == Insert(acc.st, "ad_creatives", j,
                               VariantCreative(original, variants[j]))
              IN  IF s1.exc # "none" THEN [acc EXCEPT !.st = s1]
                  \* variant['changes_made'], read after the insert
                  ELSE IF "changes_made" \notin DOMAIN variants[j]
                  THEN [acc EXCEPT !.st = Raise(s1, "error")]
                  ELSE ABVariantLoop(
                           [st |-> s1,
                            created_variants |->
                                Append(acc.created_variants,
                                       Merge(s1.ret[1],
                                             [changes_made |->
                                                 variants[j]["changes_made"]]))],
                           original, variants, j + 1)

\* generate_ab_test_variants, lines 189-263: the body of its try block
ABVariantsBody(st, args) ==
    LET s1 == SelectSingle(st, "ad_creatives", 0, "id", args.creative_id)
        none == [st |-> Raise(s1, "http404"), created_variants |-> <<>>]
    IN  IF Len(s1.ret) = 0 THEN none
        ELSE LET original == s1.ret[1]
                 s2 == InvokeModel(s1, "openai", 1)
                 s3 == JsonLoads(s2)
             IN  IF s3.exc # "none"
                 THEN [st |-> s3, created_variants |-> <<>>]
                 ELSE ABVariantLoop([st |-> s3, created_variants |-> <<>>],
                                    original,
                                    GetD(s3.ret[1], "variants", <<>>), 1)

\* POST /api/ads/generate-variants
generate_ab_test_variants ==
    /\ Idle
    /\ \E args \in VariantRequests, env \in Envs(ABReplies, {}, 1) :
          LET s0 == Validate(Start(env), args, VariantRequired)
              out == IF s0.exc # "none"
                     THEN [st |-> s0, created_variants |-> <<>>]
                     ELSE ABVariantsBody(s0, args)
          IN  Respond("generate_ab_test_variants", args, out.st,
                      [original_creative_id |-> args.creative_id,
                       variants |-> out.created_variants])

\* the POST routes of the ads router, which main.py mounts at /api/ads
AdsRoutes == {"/generate", "/generate-variants", "/optimize-targeting"}

\* the router's dispatch of a POST to /api/ads<path>
Dispatch(st, path) ==
    IF path \in AdsRoutes THEN st ELSE Raise(st, "nomatch")

\* POST /api/ads/publish, as test_publish_ads_creates_placement sends it:
\* the id of a stored creative, or of none, and a platform list
publish_ads ==
    /\ Idle
    /\ \E creative_id \in
            {storage["ad_creatives"][k]["id"] :
                k \in 1..Len(storage["ad_creatives"])} \cup {NULL} :
          Respond("publish_ads",
                  [creative_id |-> creative_id, platforms |-> <<"facebook">>,
                   zip_code |-> 1],
                  Dispatch(Start([replies |-> <<>>, wfail |-> 0]), "/publish"),
                  [results |-> <<>>])

\* POST /api/ads/sync-performance, as test_sync_performance_upserts_metrics
\* sends it: the ids of stored placements, or of none
sync_ad_performance ==
    /\ Idle
    /\ \E placement_id \in
            {storage["ad_placements"][k]["id"] :
                k \in 1..Len(storage["ad_placements"])} \cup {NULL} :
          Respond("sync_ad_performance",
                  [placement_ids |-> <<placement_id>>],
                  Dispatch(Start([replies |-> <<>>, wfail |-> 0]),
                           "/sync-performance"),
                  [synced |-> <<>>])

(***************************************************************************)
(* routes/ai.py                                                            *)
(***************************************************************************)
CustomerIds == {1, 2}

\* replies of the embedding model: it raises or returns a vector
EmbeddingReplies ==
    {[kind |-> "raise", doc |-> <<>>],
     [kind |-> "json", doc |-> [embedding |-> 11]],
     [kind |-> "json", doc |-> [embedding |-> 22]]}

\* the f-string of generate_customer_embedding, lines 73-78:
\* ', '.join(customer.get('tags', [])) raises TypeError on a null value
RenderEmbeddingText(st, customer) ==
    IF st.exc # "none" THEN st
    ELSE IF "tags" \in DOMAIN customer /\ customer["tags"] = NULL
         THEN Raise(st, "error")
         ELSE st

\* lines 90-95: the upsert is issued without on_conflict
EmbeddingOnConflict == <<>>

\* generate_customer_embedding, lines 63-100: the body of its try block
CustomerEmbeddingBody(st, customer_id) ==
    LET s1 == SelectSingle(st, "customers", 1, "id", customer_id)
        s2 == IF Len(s1.ret) = 0 THEN Raise(s1, "http404") ELSE s1
        s3 == RenderEmbeddingText(s2, s1.ret[1])
        s4 == InvokeModel(s3, "embedding", 1)
    IN  IF s4.exc # "none" THEN s4
        ELSE Upsert(s4, "customer_embeddings", 1,
                    [customer_id |-> customer_id,
                     embedding |-> s4.ret[1].doc["embedding"],
                     model |-> "text-embedding-3-small"],
                    EmbeddingOnConflict)

\* POST /api/embeddings/customer
generate_customer_embedding ==
    /\ Idle
    /\ \E customer_id \in CustomerIds, env \in Envs(EmbeddingReplies, {}, 1) :
           LET st == CustomerEmbeddingBody(Start(env), customer_id)
           IN  Respond("generate_customer_embedding",
                       [customer_id |-> customer_id], st,
                       [customer_id |-> customer_id])

(***************************************************************************)
(* routes/content.py                                                       *)
(***************************************************************************)
\* property_id is optional: NULL when the request gives none
PropertyIds == {1, 2}

\* replies of a model asked for plain text
TextReplies ==
    {[kind |-> "raise", doc |-> <<>>], [kind |-> "text", doc |-> <<>>]}

\* generate_personalized_tip, lines 42-99: the body of its try block
PersonalizedTipBody(st, property_id) ==
    LET s1 == IF property_id # NULL
              THEN SelectSingle(st, "properties", 1, "id", property_id)
              ELSE st
        \* lines 51-56: property_details stays "" when no row is found
        s2 == InvokeModel(s1, "anthropic", 1)
    IN  Insert(s2, "ai_generated_content", 1,
               [content_type |-> "tip",
                model |-> "claude-3-5-sonnet-20241022",
                content |-> "tip"])

\* POST /api/content/generate-tip
generate_personalized_tip ==
    /\ Idle
    /\ \E property_id \in PropertyIds \cup {NULL}, env \in Envs(TextReplies, {}, 1) :
           LET st == PersonalizedTipBody(Start(env), property_id)
           IN  Respond("generate_personalized_tip",
                       [property_id |-> property_id], st,
                       [tip |-> "tip", model |-> "claude-3-5-sonnet-20241022"])

\* replies of the model asked for the email object
EmailReplies ==
    {[kind |-> "raise", doc |-> <<>>],
     [kind |-> "text", doc |-> <<>>],
     [kind |-> "json", doc |-> [subject |-> 1]]}

\* generate_email_campaign, lines 111-161: the body of its try block
EmailCampaignBody(st) ==
    LET s1 == InvokeModel(st, "openai", 1)
        s2 == JsonLoads(s1)
    IN  IF s2.exc # "none" THEN s2
        ELSE Insert(s2, "ai_generated_content", 1,
                    [content_type |-> "email", model |-> "gpt-4",
                     content |-> "email"])

\* POST /api/content/generate-email
generate_email_campaign ==
    /\ Idle
    /\ \E env \in Envs(EmailReplies, {}, 1) :
           LET st == EmailCampaignBody(Start(env))
           IN  Respond("generate_email_campaign",
                       [campaign_type |-> "seasonal"], st,
                       [campaign_type |-> "seasonal", model |-> "gpt-4"])

(***************************************************************************)
(* routes/properties.py                                                    *)
(***************************************************************************)
\* replies of a model asked for a JSON object that is stored as it is
ObjectReplies ==
    {[kind |-> "raise", doc |-> <<>>],
     [kind |-> "text", doc |-> <<>>],
     [kind |-> "json", doc |-> [property_condition |-> "good"]],
     [kind |-> "json", doc |-> [note |-> 1]]}

\* analyze_property, lines 29-92: the body of its try block
AnalyzePropertyBody(st, property_id) ==
    LET s1 == SelectSingle(st, "properties", 1, "id", property_id)
        s2 == IF Len(s1.ret) = 0 THEN Raise(s1, "http404") ELSE s1
        s3 == InvokeModel(s2, "openai", 1)
        s4 == JsonLoads(s3)
    IN  IF s4.exc # "none" THEN s4
        ELSE Update(s4, "properties", 1,
                    [property_condition |->
                         GetD(s4.ret[1], "property_condition", "None"),
                     detected_features |-> 1],
                    "id", property_id)

\* POST /api/properties/analyze
analyze_property ==
    /\ Idle
    /\ \E property_id \in PropertyIds, env \in Envs(ObjectReplies, {}, 1) :
           LET st == AnalyzePropertyBody(Start(env), property_id)
           IN  Respond("analyze_property", [property_id |-> property_id], st,
                       [property_id |-> property_id])

(***************************************************************************)
(* routes/analytics.py                                                     *)
(***************************************************************************)
\* predict_customer_churn, lines 24-77: the body of its try block
PredictChurnBody(st, customer_id) ==
    LET s1 == SelectSingle(st, "customers", 1, "id", customer_id)
        s2 == IF Len(s1.ret) = 0 THEN Raise(s1, "http404") ELSE s1
        s3 == Select(s2, "jobs", 1, "customer_id", customer_id)
        s4 == Select(s3, "invoices", 1, "customer_id", customer_id)
        s5 == InvokeModel(s4, "openai", 1)
    IN  JsonLoads(s5)

\* POST /api/analytics/predict-churn
predict_customer_churn ==
    /\ Idle
    /\ \E customer_id \in CustomerIds, env \in Envs(ObjectReplies, {}, 1) :
           LET st == PredictChurnBody(Start(env), customer_id)
           IN  Respond("predict_customer_churn", [customer_id |-> customer_id],
                       st, [customer_id |-> customer_id])

(***************************************************************************)
(* routes/maintenance.py                                                   *)
(***************************************************************************)
ProspectIds == {1, 2}

\* replies of the watering model: the promised object, or one without
\* 'lawn_watering_needed'
WateringReplies ==
    {[kind |-> "raise", doc |-> <<>>],
     [kind |-> "text", doc |-> <<>>],
     [kind |-> "json",
      doc |-> [lawn_watering_needed |-> TRUE, garden_watering_needed |-> FALSE]],
     [kind |-> "json", doc |-> [garden_watering_needed |-> FALSE]]}

\* generate_watering_recommendation, lines 31-142: the body of its try block
WateringBody(st, prospect_id) ==
    LET s1 == SelectSingle(st, "prospects", 1, "id", prospect_id)
        \* line 37: prospect.get on None raises AttributeError
        s2 == IF Len(s1.ret) = 0 THEN Raise(s1, "error") ELSE s1
        s3 == Select(s2, "weather_data", 1, "zip_code", 1)
        s4 == Select(s3, "lawn_maintenance_schedules", 1, "prospect_id",
                     prospect_id)
        s5 == InvokeModel(s4, "openai", 1)
        s6 == JsonLoads(s5)
        recommendation == s6.ret[1]
    IN  IF s6.exc # "none" THEN s6
        \* lines 125, 128: recommendation['...'] raises KeyError
        ELSE IF ~({"lawn_watering_needed", "garden_watering_needed"}
                    \subseteq DOMAIN recommendation)
             THEN Raise(s6, "error")
             ELSE Insert(s6, "watering_schedules", 1,
                         [prospect_id |-> prospect_id,
                          lawn_watering_needed |->
                              recommendation["lawn_watering_needed"],
                          garden_watering_needed |->
                              recommendation["garden_watering_needed"]])

\* POST /api/maintenance/watering-recommendation
generate_watering_recommendation ==
    /\ Idle
    /\ \E prospect_id \in ProspectIds, env \in Envs(WateringReplies, {}, 1) :
           LET st == WateringBody(Start(env), prospect_id)
           IN  Respond("generate_watering_recommendation",
                       [prospect_id |-> prospect_id], st, [success |-> TRUE])

(***************************************************************************)
(* routes/garden.py                                                        *)
(***************************************************************************)
\* an address is a sequence of words
Addresses == {<<1>>, <<1, 2>>, <<3>>}

\* street_address ILIKE '%address%': the address occurs in the stored one
ILike(stored, address) ==
    \E k \in 0..(Len(stored) - Len(address)) :
        \A i \in 1..Len(address) : stored[k + i] = address[i]

\* a step that creates the prospect without looking for it
CreateProspect(st, address, source) ==
    Insert(DbRead(st, "prospects", 1, <<>>), "prospects", 1,
           [street_address |-> address,
            contact_status |-> "engaged",
            source |-> source])

\* lines 38-52: get or create the prospect of the address
GetOrCreateProspect(st, address, source) ==
    LET s1 == DbRead(st, "prospects", 1,
                     SelectSeq(st.storage["prospects"],
                               LAMBDA r : ILike(r["street_address"], address)))
    IN  IF Len(s1.ret) > 0
        THEN [s1 EXCEPT !.ret = <<s1.ret[1]>>]
        ELSE Insert(s1, "prospects", 1,
                    [street_address |-> address,
                     contact_status |-> "engaged",
                     source |-> source])

\* generate_personalized_plan, lines 35-186: the body of its try block
PersonalizedPlanBody(st, address) ==
    LET s1 == GetOrCreateProspect(st, address, "garden_planner")
        prospect == s1.ret[1]
        s2 == IF s1.exc = "none" /\ Get(prospect, "neighborhood_id") # NULL
              THEN SelectSingle(s1, "neighborhoods", 1, "id",
                                prospect["neighborhood_id"])
              ELSE s1
        s3 == InvokeModel(s2, "openai", 1)
        s4 == JsonLoads(s3)
        s5 == IF s4.exc # "none" THEN s4
              ELSE Insert(s4, "garden_plans", 1,
                          [prospect_id |-> prospect["id"],
                           year |-> 2024,
                           ai_generated_plan |-> 1])
        garden_plan == s5.ret
        s6 == IF s5.exc # "none" THEN s5
              ELSE Insert(s5, "leads", 1,
                          [prospect_id |-> prospect["id"],
                           source |-> "garden_planner",
                           status |-> "new"])
    IN  IF s6.exc # "none" THEN s6 ELSE [s6 EXCEPT !.ret = garden_plan]

\* POST /api/garden/generate-personalized-plan
generate_personalized_plan ==
    /\ Idle
    /\ \E address \in Addresses, env \in Envs(ObjectReplies, {}, 1) :
           LET st == PersonalizedPlanBody(Start(env), address)
           IN  Respond("generate_personalized_plan", [address |-> address], st,
                       IF st.exc = "none"
                       THEN [garden_plan_id |-> st.ret[1]["id"]]
                       ELSE <<>>)

\* the plan_id of a GET /plans/{plan_id}: a stored plan's or an unknown one
PlanIds == {1} \cup {storage["garden_plans"][i]["id"] :
                        i \in 1..Len(storage["garden_plans"])}

\* GET /api/garden/plans/{plan_id}
get_garden_plan ==
    /\ Idle
    /\ \E plan_id \in PlanIds :
           LET s1 == SelectSingle(Start([replies |-> <<>>, wfail |-> 0]),
                                  "garden_plans", 1, "id", plan_id)
               st == IF Len(s1.ret) = 0 THEN Raise(s1, "http404") ELSE s1
           IN  Respond("get_garden_plan", [plan_id |-> plan_id], st,
                       IF st.exc = "none" THEN st.ret[1] ELSE <<>>)

\* routes/maintenance.py, assess_property_needs, lines 259-372: the body of
\* its try block; the prompt reads the embedded neighborhood with defaults
AssessPropertyBody(st, address) ==
    LET s1 == GetOrCreateProspect(st, address, "property_assessment")
        prospect == s1.ret[1]
        s2 == InvokeModel(s1, "openai", 1)
        s3 == JsonLoads(s2)
        recommendations == s3.ret
        s4 == IF s3.exc # "none" THEN s3
              ELSE Insert(s3, "leads", 1,
                          [prospect_id |-> prospect["id"],
                           source |-> "property_assessment",
                           status |-> "new"])
    IN  IF s4.exc # "none" THEN s4 ELSE [s4 EXCEPT !.ret = recommendations]

\* POST /api/maintenance/property/assess
assess_property_needs ==
    /\ Idle
    /\ \E address \in Addresses, env \in Envs(ObjectReplies, {}, 1) :
           LET st == AssessPropertyBody(Start(env), address)
           IN  Respond("assess_property_needs", [address |-> address], st,
                       IF st.exc = "none"
                       THEN [success |-> TRUE, recommendations |-> st.ret[1]]
                       ELSE <<>>)

(***************************************************************************)
(* The store's upsert as FakeTable offers it to any caller:                *)
(* table(name).upsert(payload, on_conflict=...).execute()                  *)
(***************************************************************************)
\* "customer_id", "customer_id, embedding" and no on_conflict at all
OnConflicts ==
    {<<>>,
     <<[name |-> "customer_id", blanks |-> FALSE]>>,
     <<[name |-> "customer_id", blanks |-> FALSE],
       [name |-> "embedding", blanks |-> TRUE]>>}

UpsertPayloads ==
    {[customer_id |-> c, embedding |-> e, model |-> m] :
        c \in {1, 2}, e \in {11, 22}, m \in {"small", "large"}}
    \cup {[customer_id |-> 1, note |-> 1],
          [id |-> 7, customer_id |-> 1, embedding |-> 11]}

upsert_record ==
    /\ Idle
    /\ \E payload \in UpsertPayloads, on_conflict \in OnConflicts,
          wfail \in 0..1 :
           LET st == Upsert(Start([replies |-> <<>>, wfail |-> wfail]),
                            "customer_embeddings", 1, payload, on_conflict)
           IN  Respond("upsert_record",
                       [payload |-> payload, on_conflict |-> on_conflict], st,
                       IF st.exc = "none" THEN st.ret[1] ELSE <<>>)

(***************************************************************************)
(* The event loop.  FastAPI runs an "async def" handler as a task on the   *)
(* loop's one thread; a task gives the thread back only at an await that   *)
(* suspends.  The handlers call the OpenAI, Anthropic and Supabase clients *)
(* of core/ai_clients.py and core/database.py, which are the synchronous   *)
(* ones, without await; the one await, of score_lead in batch_score_leads, *)
(* runs the coroutine inline.  A task is [op, n, at, i, v]: n the length   *)
(* of its list, at the network call it is in, i the item of the list it is *)
(* at, v the variants of the item still to insert.                         *)
(***************************************************************************)
Tasks == 1..MaxTasks

NoTask == [op |-> "none", n |-> 0, at |-> "none", i |-> 0, v |-> 0]
NoTasks == [running |-> 0, task |-> [t \in Tasks |-> NoTask]]

\* the positions at which a task waits for a network call to complete
NetworkCalls == {"select", "item_select", "call", "update", "insert"}

\* a loop that never leaves its current item
RepeatItem(task) ==
    IF task.n = 0 THEN [task EXCEPT !.at = "done"]
    ELSE [task EXCEPT !.at = "item_select", !.v = 0]

\* "for lead in leads.data" and "for neighborhood_id in
\* request.neighborhood_ids": the next item of the list, or the return
NextItem(task) ==
    IF task.i < task.n
    THEN [task EXCEPT !.at = "item_select", !.i = @ + 1, !.v = 0]
    ELSE [task EXCEPT !.at = "done", !.v = 0]

\* where a task is after the network call it is in completes; ok: the call
\* returned what the handler needs to go on, k: the variants of a reply
AfterCall(task, ok, k) ==
    LET done == [task EXCEPT !.at = "done", !.v = 0]
    IN  IF task.op = "score_lead"
        THEN IF task.at = "select" /\ ok
             THEN [task EXCEPT !.at = "call"]
             ELSE done
        ELSE IF task.op = "batch_score_leads"
        THEN IF task.at = "item_select" /\ ok
             THEN [task EXCEPT !.at = "call"]
             ELSE IF task.at = "call" /\ ok
             THEN [task EXCEPT !.at = "update"]
             \* the first read, a failed item and an updated item alike
             ELSE NextItem(task)
        \* generate_neighborhood_ads: any failure ends the request
        ELSE IF task.at = "select"
             THEN IF ok THEN NextItem(task) ELSE done
             ELSE IF task.at = "item_select"
             THEN IF ok THEN [task EXCEPT !.at = "call"] ELSE NextItem(task)
             ELSE IF ~ok THEN done
             ELSE IF task.at = "call"
             THEN IF k = 0 THEN NextItem(task)
                  ELSE [task EXCEPT !.at = "insert", !.v = k]
             ELSE IF task.v > 1 THEN [task EXCEPT !.v = @ - 1]
             ELSE NextItem(task)

\* a request arrives: the loop creates its task; tasks are numbered in the
\* order of arrival
Arrive(t) ==
    /\ worker.task[t].at = "none"
    /\ \A u \in Tasks : u < t => worker.task[u].at # "none"
    /\ \E op \in {"score_lead", "batch_score_leads",
                  "generate_neighborhood_ads"}, n \in 0..MaxItems :
          /\ op = "score_lead" => n = 0
          /\ worker' = [worker EXCEPT
                          !.task[t] = [op |-> op, n |-> n, at |-> "queued",
                                       i |-> 0, v |-> 0]]
    /\ UNCHANGED <<storage, nextId, left, req, resp, log, before, asked, procs>>

\* the idle loop runs a ready task: it enters the handler, which issues its
\* first datastore read
Resume(t) ==
    /\ worker.running = 0
    /\ worker.task[t].at = "queued"
    /\ worker' = [worker EXCEPT !.running = t, !.task[t].at = "select"]
    /\ UNCHANGED <<storage, nextId, left, req, resp, log, before, asked, procs>>

\* the network call of the running task completes and the handler goes on
\* to its next call or returns; the thread is the task's all the while
Complete(t) ==
    /\ worker.running = t
    /\ worker.task[t].at \in NetworkCalls
    /\ \E ok \in BOOLEAN, k \in 0..MaxItems :
          LET task == AfterCall(worker.task[t], ok, k)
          IN  worker' = [worker EXCEPT
                           !.task[t] = task,
                           !.running = IF task.at = "done" THEN 0 ELSE t]
    /\ UNCHANGED <<storage, nextId, left, req, resp, log, before, asked, procs>>

(***************************************************************************)
(* generate_personalized_plan on several worker processes (uvicorn         *)
(* --workers): each process runs its request's datastore and model calls   *)
(* one after the other, and the calls of different processes interleave    *)
(* at the shared datastore.  A process is [at, address, prospect]: at is   *)
(* the call it has completed last, prospect the id it holds.               *)
(***************************************************************************)
Procs == 1..MaxProcs

OtherVars == <<left, req, resp, log, before, worker, asked>>

\* garden.py line 38: the select with ilike; lines 40-41 keep the first row
Lookup(p) ==
    /\ procs[p].at = "idle"
    /\ \E address \in Addresses :
          LET found == SelectSeq(storage["prospects"],
                           LAMBDA r : ILike(r["street_address"], address))
          IN  procs' = [procs EXCEPT
                          ![p] = [at |-> "looked", address |-> address,
                                  prospect |-> IF Len(found) > 0
                                               THEN found[1]["id"]
                                               ELSE NULL]]
    /\ UNCHANGED <<storage, nextId>>
    /\ UNCHANGED OtherVars

\* lines 42-52: no row was found, the prospect is inserted; the insert may
\* raise
Create(p) ==
    /\ procs[p].at = "looked"
    /\ procs[p].prospect = NULL
    /\ \/ /\ storage' = [storage EXCEPT
                            !["prospects"] =
                                InsertRows(@, [street_address |-> procs[p].address,
                                               contact_status |-> "engaged",
                                               source |-> "garden_planner"],
                                           nextId)]
          /\ nextId' = nextId + 1
          /\ procs' = [procs EXCEPT ![p].at = "created", ![p].prospect = nextId]
       \/ /\ procs' = [procs EXCEPT ![p].at = "failed"]
          /\ UNCHANGED <<storage, nextId>>
    /\ UNCHANGED OtherVars

\* lines 54-153: the neighborhood of a stored prospect is read (a read that
\* changes nothing), then the model call and json.loads, which may raise
CallModel(p) ==
    /\ procs[p].at \in {"looked", "created"}
    /\ procs[p].prospect # NULL
    /\ \E ok \in BOOLEAN :
          procs' = [procs EXCEPT ![p].at = IF ok THEN "called" ELSE "failed"]
    /\ UNCHANGED <<storage, nextId>>
    /\ UNCHANGED OtherVars

\* lines 155-164: the garden plan is inserted for the prospect held
InsertPlan(p) ==
    /\ procs[p].at = "called"
    /\ \/ /\ storage' = [storage EXCEPT
                            !["garden_plans"] =
                                InsertRows(@, [prospect_id |-> procs[p].prospect,
                                               year |-> 2024,
                                               ai_generated_plan |-> 1],
                                           nextId)]
          /\ nextId' = nextId + 1
          /\ procs' = [procs EXCEPT ![p].at = "planned"]
       \/ /\ procs' = [procs EXCEPT ![p].at = "failed"]
          /\ UNCHANGED <<storage, nextId>>
    /\ UNCHANGED OtherVars

\* lines 166-176: the lead is inserted for the prospect held
InsertLead(p) ==
    /\ procs[p].at = "planned"
    /\ \/ /\ storage' = [storage EXCEPT
                            !["leads"] =
                                InsertRows(@, [prospect_id |-> procs[p].prospect,
                                               source |-> "garden_planner",
                                               status |-> "new"],
                                           nextId)]
          /\ nextId' = nextId + 1
          /\ procs' = [procs EXCEPT ![p].at = "done"]
       \/ /\ procs' = [procs EXCEPT ![p].at = "failed"]
          /\ UNCHANGED <<storage, nextId>>
    /\ UNCHANGED OtherVars

(***************************************************************************)
(* The store when the service starts: the rows of FakeSupabase.__init__    *)
(* and rows of the tables the other routers read.                          *)
(***************************************************************************)
EmptyStore == [t \in Tables |-> <<>>]

SeedLeads ==
    {<<[id |-> 1, services_interested |-> 1], l2>> :
        l2 \in {[id |-> 2], [id |-> 2, services_interested |-> NULL]}}

SeedStores ==
    {[EmptyStore EXCEPT
        !["leads"] = leads,
        !["ad_campaigns"] = <<[id |-> 1]>>,
        !["neighborhoods"] = <<[id |-> 1, common_grass_types |-> 1], [id |-> 2]>>,
        !["customers"] = <<[id |-> 1]>>,
        !["properties"] = <<[id |-> 1]>>,
        !["prospects"] = <<[id |-> 1, street_address |-> <<1, 2>>]>>,
        !["garden_plans"] = <<[id |-> 2, prospect_id |-> 1, year |-> 2024]>>] :
     leads \in SeedLeads}

InitWith(n) ==
    /\ storage \in SeedStores
    /\ nextId = 100
    /\ left = n
    /\ req = NoRequest
    /\ resp = NoResponse
    /\ log = <<>>
    /\ before = storage
    /\ worker = NoTasks
    /\ asked = {}
    /\ procs = [p \in 1..MaxProcs |-> NoProc]

Init == InitWith(MaxRequests)

Next ==
    \/ score_lead
    \/ batch_score_leads
    \/ generate_neighborhood_ads
    \/ generate_customer_embedding
    \/ generate_personalized_tip
    \/ generate_email_campaign
    \/ analyze_property
    \/ predict_customer_churn
    \/ generate_watering_recommendation
    \/ generate_personalized_plan
    \/ get_garden_plan
    \/ Deliver

Spec == Init /\ [][Next]_vars

\* the embedding-upsert path and the record writer's upsert, repeated
InitStore == InitWith(MaxRepeats)

NextStore ==
    \/ generate_customer_embedding
    \/ upsert_record
    \/ Deliver

SpecStore == InitStore /\ [][NextStore]_vars

\* ad generation and publication, one request after the other
NextAds ==
    \/ generate_neighborhood_ads
    \/ publish_ads
    \/ Deliver

SpecAds == InitStore /\ [][NextAds]_vars

\* requests of the two handlers that get or create a prospect
NextProspects ==
    \/ generate_personalized_plan
    \/ assess_property_needs
    \/ Deliver

SpecProspects == InitStore /\ [][NextProspects]_vars

\* one ad generation, then requests for A/B variants of its creatives
first_generate_ads == left = MaxRepeats /\ generate_neighborhood_ads

NextVariants ==
    \/ first_generate_ads
    \/ generate_ab_test_variants
    \/ Deliver

SpecVariants == InitStore /\ [][NextVariants]_vars

\* one ad generation, then publication and the sync of its metrics
InitSync == InitWith(MaxRepeats + 1)

NextSync ==
    \/ (left = MaxRepeats + 1 /\ generate_neighborhood_ads)
    \/ publish_ads
    \/ sync_ad_performance
    \/ Deliver

SpecSync == InitSync /\ [][NextSync]_vars

\* plan requests on worker processes of their own
NextProcs ==
    \/ \E p \in Procs : Lookup(p)
    \/ \E p \in Procs : Create(p)
    \/ \E p \in Procs : CallModel(p)
    \/ \E p \in Procs : InsertPlan(p)
    \/ \E p \in Procs : InsertLead(p)

SpecProcs == Init /\ [][NextProcs]_vars

\* requests in flight on one event loop
NextWorker ==
    \/ \E t \in Tasks : Arrive(t)
    \/ \E t \in Tasks : Resume(t)
    \/ \E t \in Tasks : Complete(t)

\* scheduling does not read the store: one store stands for all
InitWorker == Init /\ storage = CHOOSE s \in SeedStores : TRUE

SpecWorker == InitWorker /\ [][NextWorker]_vars

\* the same, where a call that is under way returns or raises and the free
\* loop runs a task that is ready
SpecWorkerFair ==
    /\ SpecWorker
    /\ \A t \in Tasks : WF_vars(Resume(t)) /\ WF_vars(Complete(t))

(***************************************************************************)
(* What a responded request referred to, read from the store before it.    *)
(***************************************************************************)
Stored(tbl, id) == FilterEq(before[tbl], "id", id) # <<>>

Responded(op) == req.op = op

\* a score_lead request whose body passed validation
ScoresLead == Responded("score_lead") /\ "lead_id" \in DOMAIN req.args

\* the request names an identifier that matches no row
ReferencesMissing ==
    \/ /\ ScoresLead
       /\ ~Stored("leads", req.args.lead_id)
    \/ /\ Responded("batch_score_leads")
       /\ \E k \in 1..Len(req.args.lead_ids) :
             ~Stored("leads", req.args.lead_ids[k])
    \/ /\ Responded("generate_neighborhood_ads")
       /\ \/ ~Stored("ad_campaigns", req.args.campaign_id)
          \/ \E k \in 1..Len(GetD(req.args, "neighborhood_ids", <<>>)) :
                ~Stored("neighborhoods", req.args.neighborhood_ids[k])
    \/ /\ req.op \in {"generate_customer_embedding", "predict_customer_churn"}
       /\ ~Stored("customers", req.args.customer_id)
    \/ /\ Responded("generate_personalized_tip")
       /\ req.args.property_id # NULL
       /\ ~Stored("properties", req.args.property_id)
    \/ /\ Responded("analyze_property")
       /\ ~Stored("properties", req.args.property_id)
    \/ /\ Responded("generate_watering_recommendation")
       /\ ~Stored("prospects", req.args.prospect_id)
    \/ /\ Responded("get_garden_plan")
       /\ ~Stored("garden_plans", req.args.plan_id)

\* the request's lookup that the handler tests with "if not ...: raise
\* HTTPException(status_code=404)" found nothing
CheckedLookupFoundNothing ==
    \/ ScoresLead /\ ~Stored("leads", req.args.lead_id)
    \/ /\ Responded("generate_neighborhood_ads")
       /\ ~Stored("ad_campaigns", req.args.campaign_id)
    \/ /\ req.op \in {"generate_customer_embedding", "predict_customer_churn"}
       /\ ~Stored("customers", req.args.customer_id)
    \/ /\ Responded("analyze_property")
       /\ ~Stored("properties", req.args.property_id)
    \/ /\ Responded("get_garden_plan")
       /\ ~Stored("garden_plans", req.args.plan_id)

(***************************************************************************)
(* Properties.                                                             *)
(***************************************************************************)
\* C1: a score_lead request whose lead_id matches no row of leads is
\* answered with status 404, and every table is as it was before the request
C1_UnknownLeadIs404 ==
    (ScoresLead /\ ~Stored("leads", req.args.lead_id))
        => resp.status = 404 /\ storage = before

C1_Witness ==
    /\ ScoresLead
    /\ ~Stored("leads", req.args.lead_id)
    /\ resp.status = 404
    /\ NumCalls(log) = 0

\* C2: a request that names an identifier matching no row has issued no
\* upstream model call when its response is produced
C2_NoCallForMissingEntity ==
    (req.op # "none" /\ ReferencesMissing) => NumCalls(log) = 0

\* C3: a request whose checked lookup finds nothing is answered with
\* status 404 and no other status
C3_AbsenceIs404 ==
    (req.op # "none" /\ CheckedLookupFoundNothing) => resp.status = 404

\* the leads a batch request fetched with .in_('id', lead_ids)
Fetched == FilterIn(before["leads"], "id", req.args.lead_ids)

\* the ids of the leads the batch scored and updated
ScoredIds ==
    {Fetched[i]["id"] : i \in {i \in 1..Len(Fetched) :
        \E k \in 1..Len(log) :
            /\ log[k].ev = "db" /\ log[k].op = "update"
            /\ log[k].item = i /\ log[k].ok}}

\* some lead of the list was not found or its scoring iteration failed
SomeLeadFails ==
    \E k \in 1..Len(req.args.lead_ids) : req.args.lead_ids[k] \notin ScoredIds

\* C4: a batch_score_leads request of N ids of which at least one is not
\* found or fails in its iteration (scoring or the row update) is answered
\* 200 with scored_count < N, and results holds one entry for each lead
\* whose iteration succeeded and none for any other lead
C4_BatchPartialFailure ==
    (Responded("batch_score_leads") /\ SomeLeadFails) =>
        /\ resp.status = 200
        /\ resp.body.scored_count < Len(req.args.lead_ids)
        /\ resp.body.scored_count = Cardinality(ScoredIds)
        /\ Len(resp.body.results) = Cardinality(ScoredIds)
        /\ {resp.body.results[j].lead_id : j \in 1..Len(resp.body.results)}
               = ScoredIds

C4_Witness ==
    /\ Responded("batch_score_leads")
    /\ Len(req.args.lead_ids) = 2
    /\ ~Stored("leads", req.args.lead_ids[1])
    /\ resp.status = 200
    /\ resp.body.scored_count = 1
    /\ \E k \in 1..Len(log) : log[k].ev = "call" /\ log[k].ok

\* the rows a request added to a table
Added(tbl) == SubSeq(storage[tbl], Len(before[tbl]) + 1, Len(storage[tbl]))

\* an ad request for one stored campaign and one stored neighborhood whose
\* model reply is one well-formed variant, with no failing write
OneVariantAdRequest ==
    /\ Responded("generate_neighborhood_ads")
    /\ Stored("ad_campaigns", req.args.campaign_id)
    /\ "neighborhood_ids" \in DOMAIN req.args
    /\ Len(req.args.neighborhood_ids) = 1
    /\ Stored("neighborhoods", req.args.neighborhood_ids[1])
    /\ req.env.replies =
           <<[kind |-> "json", doc |-> [variants |-> <<GoodVariant("h1")>>]]>>
    /\ req.env.wfail = 0

\* C5: an ad request for one stored campaign and one stored neighborhood
\* whose model returns one well-formed variant adds exactly one ad_creatives
\* row, with the requested neighborhood_id and the request's use_model
C5_OneVariantOneRow ==
    OneVariantAdRequest =>
        /\ Len(Added("ad_creatives")) = 1
        /\ SubSeq(storage["ad_creatives"], 1, Len(before["ad_creatives"]))
               = before["ad_creatives"]
        /\ Added("ad_creatives")[1]["neighborhood_id"]
               = req.args.neighborhood_ids[1]
        /\ Added("ad_creatives")[1]["ai_model"] = req.args.use_model

C5_Witness ==
    /\ OneVariantAdRequest
    /\ req.args.use_model = "claude"
    /\ req.args.neighborhood_ids = <<2>>
    /\ resp.status = 200
    /\ Len(Added("ad_creatives")) = 1

\* every backend call of the request returned and every write was stored
AllStepsSucceeded == \A k \in 1..Len(log) : log[k].ok

\* the response carries the identifier of a row that is in its table
CarriesStoredId ==
    \/ /\ Responded("generate_personalized_plan")
       /\ \E i \in 1..Len(storage["garden_plans"]) :
             storage["garden_plans"][i]["id"] = resp.body.garden_plan_id
    \/ /\ Responded("generate_neighborhood_ads")
       /\ Len(resp.body.ads) > 0
       /\ \A k \in 1..Len(resp.body.ads) :
             \E i \in 1..Len(storage["ad_creatives"]) :
                 storage["ad_creatives"][i] = resp.body.ads[k]

GenerationEndpoints ==
    {"generate_neighborhood_ads", "generate_personalized_plan",
     "generate_personalized_tip", "generate_watering_recommendation",
     "generate_customer_embedding"}

\* the number of rows the request added, over all tables
RowsAdded ==
    LET RECURSIVE Sum(_)
        Sum(S) == IF S = {} THEN 0
                  ELSE LET t == CHOOSE t \in S : TRUE
                       IN  Len(storage[t]) - Len(before[t]) + Sum(S \ {t})
    IN  Sum(Tables)

\* C7: a generation request answered 200 has added exactly one row and
\* changed no other, and one answered with an error has left every table
\* as it was
C7_OneRecordOrNone ==
    (req.op \in GenerationEndpoints) =>
        IF resp.status = 200
        THEN /\ RowsAdded = 1
             /\ \A t \in Tables :
                   SubSeq(storage[t], 1, Len(before[t])) = before[t]
        ELSE storage = before

\* C8: for each processed item of a request, at most one upstream model
\* call is in the request's log, so no call follows a failed call for the
\* same item
C8_AtMostOneCallPerItem ==
    \A i, j \in 1..Len(log) :
        (log[i].ev = "call" /\ log[j].ev = "call"
            /\ log[i].item = log[j].item) => i = j

C8_Witness ==
    /\ Responded("batch_score_leads")
    /\ NumCalls(log) = 2
    /\ \E k \in 1..Len(log) :
          log[k].ev = "call" /\ log[k].item = 1 /\ ~log[k].ok
    /\ \E k \in 1..Len(log) :
          log[k].ev = "call" /\ log[k].item = 2 /\ log[k].ok

\* the customer_embeddings rows of the request's customer
EmbeddingsOf(store) ==
    FilterEq(store["customer_embeddings"], "customer_id", req.args.customer_id)

\* a second generate_customer_embedding for a customer: the store before it
\* holds one row for the customer, the one a first call wrote
SecondEmbeddingCall ==
    /\ Responded("generate_customer_embedding")
    /\ resp.status = 200
    /\ Len(EmbeddingsOf(before)) = 1
    /\ Get(EmbeddingsOf(before)[1], "model") = "text-embedding-3-small"

\* C9: after a second generate_customer_embedding for the same customer the
\* store holds exactly one customer_embeddings row for the customer, with
\* the fields the second call wrote
C9_SecondCallOverwrites ==
    SecondEmbeddingCall =>
        /\ Len(EmbeddingsOf(storage)) = 1
        /\ EmbeddingsOf(storage)[1]["embedding"]
               = req.env.replies[1].doc["embedding"]

\* the conflict fields the caller of an upsert named
KeyFields ==
    {req.args.on_conflict[i].name : i \in 1..Len(req.args.on_conflict)}

\* the stored row agrees with the upsert's payload on every conflict field
Conflicts(stored) ==
    \A f \in KeyFields : Get(stored, f) = Get(req.args.payload, f)

\* an upsert that names conflict fields and finds a stored row agreeing on
\* all of them
ConflictingUpsert ==
    /\ Responded("upsert_record")
    /\ resp.status = 200
    /\ KeyFields # {}
    /\ \E i \in 1..Len(before["customer_embeddings"]) :
          Conflicts(before["customer_embeddings"][i])

\* C10: an upsert whose payload agrees with a stored row on every conflict
\* field the caller named (at least one) merges into the first such row:
\* payload fields take the payload's value, the row's other fields (its id
\* too) keep theirs, the other rows and the row count stay as they were
C10_UpsertMerges ==
    ConflictingUpsert =>
        LET old == before["customer_embeddings"]
            new == storage["customer_embeddings"]
            payload == req.args.payload
            i == CHOOSE i \in 1..Len(old) :
                    /\ Conflicts(old[i])
                    /\ \A j \in 1..(i - 1) : ~Conflicts(old[j])
        IN  /\ Len(new) = Len(old)
            /\ DOMAIN new[i] = DOMAIN old[i] \cup DOMAIN payload
            /\ \A f \in DOMAIN payload : new[i][f] = payload[f]
            /\ \A f \in DOMAIN old[i] \ DOMAIN payload : new[i][f] = old[i][f]
            /\ \A j \in 1..Len(old) : j # i => new[j] = old[j]

C10_Witness ==
    /\ ConflictingUpsert
    /\ Len(req.args.on_conflict) = 2
    /\ "id" \notin DOMAIN req.args.payload
    /\ "model" \in DOMAIN req.args.payload
    /\ \E i \in 1..Len(before["customer_embeddings"]) :
          /\ Conflicts(before["customer_embeddings"][i])
          /\ "model" \in DOMAIN before["customer_embeddings"][i]
          /\ before["customer_embeddings"][i]["model"]
                 # req.args.payload["model"]
          /\ storage["customer_embeddings"][i]["model"]
                 = req.args.payload["model"]
          /\ storage["customer_embeddings"][i]["id"]
                 = before["customer_embeddings"][i]["id"]
          /\ storage["customer_embeddings"][i]["id"] # NULL

\* the keys of the JSON object a handler's prompt asks the model for
\* (leads.py 57-70, ads.py 105-118, maintenance.py 93-103), as far as the
\* replies of the model carry them
OutputSchema(op) ==
    IF op = "score_lead"
    THEN {"score", "estimated_monthly_value", "factors", "explanation"}
    ELSE IF op = "generate_neighborhood_ads" THEN {"variants"}
    ELSE IF op = "generate_watering_recommendation"
    THEN {"lawn_watering_needed", "garden_watering_needed"}
    ELSE {}

\* a reply the request parsed lacks a key of the prompt's schema
ParsedReplyLacksKey ==
    \E k \in 1..Len(req.env.replies) :
        /\ req.env.replies[k].kind = "json"
        /\ ~(OutputSchema(req.op) \subseteq DOMAIN req.env.replies[k].doc)

\* C11: a request whose parsed model response lacks a key of the prompt's
\* declared output schema is answered 500, never with a success built from
\* substitute values
C11_SchemaViolationIs500 ==
    (req.op \in {"score_lead", "generate_neighborhood_ads",
                 "generate_watering_recommendation"}
        /\ ParsedReplyLacksKey)
        => resp.status = 500

\* an ad request through the anthropic backend for a stored campaign whose
\* every reply is a JSON object of well-formed variants inside
\* conversational text, with no failing write
WrappedClaudeRequest ==
    /\ Responded("generate_neighborhood_ads")
    /\ req.args.use_model = "claude"
    /\ Stored("ad_campaigns", req.args.campaign_id)
    /\ Len(req.env.replies) > 0
    /\ \A k \in 1..Len(req.env.replies) :
          /\ req.env.replies[k].kind = "wrapped"
          /\ [kind |-> "json", doc |-> req.env.replies[k].doc]
                 \in WellFormedAdReplies
    /\ req.env.wfail = 0

\* C12: an ad request through the anthropic backend whose reply is a
\* well-formed JSON object inside wrapper text succeeds as with the bare
\* object: status 200 and one ad_creatives row per variant of the object
C12_WrappedJsonIsExtracted ==
    WrappedClaudeRequest =>
        /\ resp.status = 200
        /\ Len(Added("ad_creatives"))
               = Len(req.env.replies[1].doc["variants"])
        /\ resp.body.ads = Added("ad_creatives")

\* a categorical field of the ad request holds a value outside its set
OutOfSetAdRequest ==
    /\ Responded("generate_neighborhood_ads")
    /\ \/ req.args.ad_type \notin AdTypes
       \/ req.args.use_model \notin UseModels

\* C13: an ad request with ad_type or use_model outside its closed set is
\* rejected before any datastore read, model call or write
C13_OutOfSetIsRejected ==
    OutOfSetAdRequest => resp.status # 200 /\ log = <<>>

\* a request that reads one stored source row and renders its prompt
RendersStoredRow ==
    \/ ScoresLead /\ Stored("leads", req.args.lead_id)
    \/ /\ Responded("generate_neighborhood_ads")
       /\ AdRequired \subseteq DOMAIN req.args
       /\ Stored("ad_campaigns", req.args.campaign_id)
       /\ Len(req.args.neighborhood_ids) = 1
       /\ Stored("neighborhoods", req.args.neighborhood_ids[1])
    \/ /\ Responded("generate_customer_embedding")
       /\ Stored("customers", req.args.customer_id)

\* C14: whatever optional fields the source row has, absent, null or with
\* a value, the prompt is rendered and the model call is reached
C14_OptionalFieldsNeverFailPrompt ==
    RendersStoredRow => NumCalls(log) = 1

\* the k-th event of the request's log is a datastore write
IsWrite(k) == log[k].ev = "db" /\ log[k].op # "select"

\* C15: every datastore write of a request comes after the model call of
\* the item it belongs to has returned: in the log, a returned call for the
\* same item precedes each write
C15_NoWriteBeforeModelCall ==
    \A k \in 1..Len(log) :
        IsWrite(k) =>
            \E j \in 1..(k - 1) :
                /\ log[j].ev = "call"
                /\ log[j].ok
                /\ log[j].item = log[k].item

\* the endpoints that handle one item per request (the ad loop included:
\* its first failure ends the request)
NonBatchEndpoints ==
    {"score_lead", "generate_neighborhood_ads", "generate_customer_embedding",
     "generate_personalized_tip", "generate_email_campaign",
     "analyze_property", "predict_customer_churn",
     "generate_watering_recommendation", "generate_personalized_plan"}

\* the endpoints that pass the model's text to json.loads
ExpectsJson ==
    NonBatchEndpoints
        \ {"generate_customer_embedding", "generate_personalized_tip"}

\* a model call of the request raised, a write raised, or a reply that had
\* to be JSON was not
FailureSeen ==
    \/ \E k \in 1..Len(log) : ~log[k].ok
    \/ /\ req.op \in ExpectsJson
       /\ \E k \in 1..Len(req.env.replies) :
             req.env.replies[k].kind \in {"text", "wrapped"}

\* C16: a non-batch request in which the model call raised, the reply was
\* not the JSON expected, or a datastore write raised is answered 500 and
\* carries no success body
C16_FailuresAre500 ==
    (req.op \in NonBatchEndpoints /\ FailureSeen) =>
        resp.status = 500 /\ resp.body = <<>>

C16_Witness ==
    /\ Responded("generate_email_campaign")
    /\ req.env.replies[1].kind = "json"
    /\ \E k \in 1..Len(log) : IsWrite(k) /\ ~log[k].ok
    /\ resp.status = 500
    /\ storage = before

\* C17: while a task waits for its model call or datastore call, another
\* request's task that is ready can be run by the worker
C17_WorkerNotBlockedByCall ==
    \A t, u \in Tasks :
        (t # u /\ worker.task[t].at \in NetworkCalls
            /\ worker.task[u].at = "queued")
            => ENABLED Resume(u)

\* the reply the backend gave to the call logged at position k
ReplyAt(k) ==
    req.env.replies[Cardinality({j \in 1..k : log[j].ev = "call"})]

\* the events of the log strictly between positions k and m
Between(k, m) == {u \in 1..Len(log) : k < u /\ u < m}

\* the item whose backend call is logged at k was done with before position
\* m: a lead's scoring failed or its update was issued; every variant of a
\* neighborhood's reply was inserted
ItemDoneBetween(k, m) ==
    IF Responded("batch_score_leads")
    THEN \/ ~log[k].ok
         \/ ReplyAt(k).kind # "json"
         \/ \E u \in Between(k, m) :
               log[u].op = "update" /\ log[u].item = log[k].item
    ELSE Cardinality({u \in Between(k, m) :
                         /\ log[u].op = "insert"
                         /\ log[u].ok
                         /\ log[u].item = log[k].item})
            = Len(GetD(ReplyAt(k).doc, "variants", <<>>))

\* C18: in the looping endpoints (batch scoring, ad generation) the backend
\* call of an item is issued only after every step of the items before it:
\* a lead's scoring and update have finished or failed, all creatives of
\* the previous neighborhood have been inserted
C18_LoopsAreSequential ==
    req.op \in {"batch_score_leads", "generate_neighborhood_ads"} =>
        \A m \in 1..Len(log) :
            log[m].ev = "call" =>
                /\ \A u \in 1..Len(log) :
                      log[u].item < log[m].item => u < m
                /\ \A k \in 1..(m - 1) :
                      log[k].ev = "call" => ItemDoneBetween(k, m)

\* a batch whose second lead is scored after the first lead's update
C18_Witness ==
    /\ Responded("batch_score_leads")
    /\ \E k, u, m \in 1..Len(log) :
          /\ k < u /\ u < m
          /\ log[k].ev = "call" /\ log[k].item = 1 /\ log[k].ok
          /\ log[u].op = "update" /\ log[u].item = 1
          /\ log[m].ev = "call" /\ log[m].item = 2

\* the request of test_generate_ads_returns_creatives: a stored campaign,
\* platforms, ad_type, zip_code and max_neighborhoods, no neighborhood_ids;
\* whatever the model is asked, it answers with one well-formed variant
ZipCodeAdRequest ==
    /\ Responded("generate_neighborhood_ads")
    /\ Stored("ad_campaigns", req.args.campaign_id)
    /\ {"zip_code", "max_neighborhoods"} \subseteq DOMAIN req.args
    /\ "neighborhood_ids" \notin DOMAIN req.args
    /\ \A k \in 1..Len(req.env.replies) :
          req.env.replies[k] =
              [kind |-> "json", doc |-> [variants |-> <<GoodVariant("h1")>>]]
    /\ req.env.wfail = 0

\* C19: an ad request that names a stored campaign and a zip_code with
\* max_neighborhoods instead of neighborhood_ids is answered 200 with a
\* non-empty ads list, and ad_creatives is non-empty afterwards
C19_ZipCodeRequestGeneratesAds ==
    ZipCodeAdRequest =>
        /\ resp.status = 200
        /\ Len(resp.body.ads) > 0
        /\ Len(storage["ad_creatives"]) > 0

\* C20: once a creative has been generated, a POST to /api/ads/publish
\* with its id and a platform list is answered 200, the first entry of
\* results has status 'published' and ad_placements holds at least one row
C20_PublishCreatesPlacement ==
    (Responded("publish_ads") /\ Stored("ad_creatives", req.args.creative_id))
        => /\ resp.status = 200
           /\ Len(resp.body.results) > 0
           /\ resp.body.results[1].status = "published"
           /\ Len(storage["ad_placements"]) > 0

\* C21: once a creative has been generated and its publication asked for,
\* a POST to /api/ads/sync-performance is answered 200 with a non-empty
\* synced list, and ad_performance holds at least one row
C21_SyncUpsertsMetrics ==
    (/\ Responded("sync_ad_performance")
     /\ \E c \in asked : Stored("ad_creatives", c))
        => /\ resp.status = 200
           /\ Len(resp.body.synced) > 0
           /\ Len(storage["ad_performance"]) > 0

\* the fields the request schema of an endpoint declares without a default
RequiredOf(op) ==
    IF op = "score_lead" THEN LeadRequired
    ELSE IF op = "generate_neighborhood_ads" THEN AdRequired
    ELSE {}

\* the body of the request lacks a required field
OmitsRequiredField == ~(RequiredOf(req.op) \subseteq DOMAIN req.args)

C23_EveryRequestTerminates ==
    \A t \in Tasks :
        (worker.task[t].at = "queued") ~> (worker.task[t].at = "done")

\* a looping request that went through its whole list and returned
C23_Witness ==
    \E t \in Tasks :
        /\ worker.task[t].op \in {"batch_score_leads", "generate_neighborhood_ads"}
        /\ worker.task[t].n = MaxItems
        /\ worker.task[t].i = MaxItems
        /\ worker.task[t].at = "done"

\* the stored row of a lead
LeadRow(id) == FilterEq(storage["leads"], "id", id)[1]

\* C24: in a successful batch_score_leads response scored_count is the
\* number of entries of results and the number of lead rows the request
\* updated with a score; results holds exactly the updated leads, each with
\* the score its row now stores, so a lead whose scoring or update raised is
\* neither counted nor listed
C24_CountMatchesResultsAndUpdates ==
    (Responded("batch_score_leads") /\ resp.status = 200) =>
        /\ resp.body.scored_count = Len(resp.body.results)
        /\ resp.body.scored_count = Cardinality(ScoredIds)
        /\ \A j \in 1..Len(resp.body.results) :
              /\ resp.body.results[j].lead_id \in ScoredIds
              /\ LeadRow(resp.body.results[j].lead_id)["score"]
                    = resp.body.results[j].score
        /\ \A i, j \in 1..Len(resp.body.results) :
              resp.body.results[i].lead_id = resp.body.results[j].lead_id
                  => i = j

\* a batch of two stored leads: the update of one raised, the other counts
C24_Witness ==
    /\ Responded("batch_score_leads")
    /\ resp.status = 200
    /\ resp.body.scored_count = 1
    /\ \E k \in 1..Len(log) : log[k].op = "update" /\ ~log[k].ok
    /\ \E k \in 1..Len(log) : log[k].op = "update" /\ log[k].ok

\* the backend a model name names: 'claude' the Anthropic one, 'gpt-4' the
\* OpenAI one, any other name neither
BackendNamed(name) ==
    IF name = "claude" THEN "anthropic"
    ELSE IF name = "gpt-4" THEN "openai"
    ELSE "neither"

\* the backends the request's calls went to
BackendsInvoked == {log[k].op : k \in {k \in 1..Len(log) : log[k].ev = "call"}}

\* C25: an ad request invokes the Anthropic backend exactly when use_model
\* is 'claude' and the OpenAI backend for every other value, and the
\* ai_model of every creative it stores and the model_used it returns name
\* the backend that was invoked
C25_StoredModelNamesBackend ==
    (Responded("generate_neighborhood_ads") /\ BackendsInvoked # {}) =>
        /\ BackendsInvoked =
              {IF req.args.use_model = "claude" THEN "anthropic" ELSE "openai"}
        /\ \A k \in 1..Len(Added("ad_creatives")) :
              BackendNamed(Added("ad_creatives")[k]["ai_model"]) \in BackendsInvoked
        /\ resp.status = 200 =>
              BackendNamed(resp.body.model_used) \in BackendsInvoked

\* an ad request with a valid body for a stored campaign, one of whose
\* neighborhood ids matches no row
SkipsNeighborhood ==
    /\ Responded("generate_neighborhood_ads")
    /\ AdRequired \subseteq DOMAIN req.args
    /\ Stored("ad_campaigns", req.args.campaign_id)
    /\ \E i \in 1..Len(req.args.neighborhood_ids) :
          ~Stored("neighborhoods", req.args.neighborhood_ids[i])

\* C26: in an ad request for a stored campaign, a neighborhood id that
\* matches no row gets no model call and no creative; when every call and
\* write of the request succeeds the answer is 200 and every stored
\* neighborhood of the list, those after the unknown one included, got its
\* call
C26_UnknownNeighborhoodIsSkipped ==
    SkipsNeighborhood =>
        LET ids == req.args.neighborhood_ids
        IN  /\ \A i \in 1..Len(ids) :
                  ~Stored("neighborhoods", ids[i]) =>
                      /\ \A k \in 1..Len(log) :
                            log[k].item = i =>
                                log[k].op = "select" /\ log[k].tbl = "neighborhoods"
                      /\ \A k \in 1..Len(Added("ad_creatives")) :
                            Added("ad_creatives")[k]["neighborhood_id"] # ids[i]
            /\ (/\ AllStepsSucceeded
                /\ \A k \in 1..Len(req.env.replies) :
                      req.env.replies[k] \in WellFormedAdReplies)
                  => /\ resp.status = 200
                     /\ \A j \in 1..Len(ids) :
                           Stored("neighborhoods", ids[j]) =>
                               \E k \in 1..Len(log) :
                                   log[k].ev = "call" /\ log[k].item = j

\* an unknown neighborhood first, a stored one second: one creative, for
\* the second
C26_Witness ==
    /\ SkipsNeighborhood
    /\ Len(req.args.neighborhood_ids) = 2
    /\ ~Stored("neighborhoods", req.args.neighborhood_ids[1])
    /\ Stored("neighborhoods", req.args.neighborhood_ids[2])
    /\ resp.status = 200
    /\ Len(Added("ad_creatives")) = 1
    /\ Added("ad_creatives")[1]["neighborhood_id"] = req.args.neighborhood_ids[2]

\* the scoring fields of a lead row
ScoreFields(row) ==
    <<Get(row, "score"), Get(row, "score_factors"),
      Get(row, "estimated_monthly_value")>>

\* the leads stored before the request whose scoring fields it changed
Rescored ==
    {k \in 1..Len(before["leads"]) :
        ScoreFields(storage["leads"][k]) # ScoreFields(before["leads"][k])}

\* C27: a score_lead request issues no datastore write and leaves the store
\* as it was, whatever its outcome; the score, score_factors and
\* estimated_monthly_value of a stored lead change only in a
\* batch_score_leads request, and only for a lead in that batch's results
C27_ScoresChangeOnlyInBatchResults ==
    /\ Responded("score_lead") =>
          /\ storage = before
          /\ \A k \in 1..Len(log) : ~IsWrite(k)
    /\ \A k \in Rescored :
          /\ Responded("batch_score_leads")
          /\ resp.status = 200
          /\ \E j \in 1..Len(resp.body.results) :
                resp.body.results[j].lead_id = before["leads"][k]["id"]

\* a batch of one lead out of two: its row is rescored, the other is not
C27_Witness ==
    /\ Responded("batch_score_leads")
    /\ Len(req.args.lead_ids) = 1
    /\ Cardinality(Rescored) = 1
    /\ Len(before["leads"]) = 2

\* a request for A/B variants of a creative that was stored before it
VariantsOfStored ==
    /\ Responded("generate_ab_test_variants")
    /\ Stored("ad_creatives", req.args.creative_id)

\* the fields a variant row sets itself
VariantOwnFields ==
    {"id", "name", "headline", "body_text", "call_to_action", "variant_name",
     "is_control"}

\* C28: a request for A/B variants leaves every row stored before it, the
\* original included, as it was; every row it inserts has an id unlike the
\* original's and unlike every other ad_creatives row, and has the
\* original's values in all fields but id, name, headline, body_text,
\* call_to_action, variant_name and is_control
C28_VariantsLeaveOriginalAlone ==
    Responded("generate_ab_test_variants") =>
        LET rows == storage["ad_creatives"]
            old == Len(before["ad_creatives"])
        IN  /\ SubSeq(rows, 1, old) = before["ad_creatives"]
            /\ \A k \in (old + 1)..Len(rows) :
                  /\ rows[k]["id"] # req.args.creative_id
                  /\ \A j \in 1..Len(rows) : rows[j]["id"] = rows[k]["id"] => j = k
                  /\ LET original ==
                             FilterEq(before["ad_creatives"], "id",
                                      req.args.creative_id)[1]
                     IN  \A f \in DOMAIN original \ VariantOwnFields :
                             f \in DOMAIN rows[k] /\ rows[k][f] = original[f]

\* two variants of a stored creative were inserted
C28_Witness ==
    /\ VariantsOfStored
    /\ resp.status = 200
    /\ Len(Added("ad_creatives")) = 2
    /\ Len(resp.body.variants) = 2

\* a request of one of the handlers that get or create a prospect
GetsOrCreatesProspect ==
    req.op \in {"generate_personalized_plan", "assess_property_needs"}

\* the prospect rows stored under a street address
ProspectsAt(store, address) ==
    SelectSeq(store["prospects"], LAMBDA r : r["street_address"] = address)

C30_ConcurrentRequestsShareProspect ==
    /\ \A a \in Addresses : Len(ProspectsAt(storage, a)) <= 1
    /\ \A p, q \in Procs :
          (/\ procs[p].address = procs[q].address
           /\ procs[p].prospect # NULL
           /\ procs[q].prospect # NULL)
              => procs[p].prospect = procs[q].prospect

====
